---------------------------- MODULE Spec2Model ----------------------------
(***************************************************************************)
(* Model of generate_models.py: the builder of the placeholder ONNX graphs *)
(* (create_style_transfer_model) and the driver that writes one model file *)
(* per built-in style (main).                                              *)
(*                                                                         *)
(* Python strings are sequences of one-character strings, so that `in`,    *)
(* lower() and replace() are computed character by character.  Float       *)
(* constants are integers in hundredths (1.5 is 150, 255.0 is 25500); an   *)
(* np.array operand is the sequence of its elements.                       *)
(***************************************************************************)
EXTENDS Integers, Sequences, FiniteSets, TLC

VARIABLES
    pc,            \* position of the process: "start", "loop", "done", "aborted"
    exit_status,   \* -1 while the process runs, then 0 or 1
    dir_exists,    \* whether the directory public/models exists
    files,         \* the files under the working directory: path -> content
    i,             \* index in styles of the style the for loop takes next
    filename,      \* main's local filename
    output_path,   \* main's local output_path / the callee's parameter
    console,       \* the lines printed by the current run
    style_name,    \* create_style_transfer_model's parameter
    model,         \* create_style_transfer_model's local model: <<>> or <<m>>
    run,           \* number of the current invocation of the script
    prev_listing   \* the paths of the files left by the previous invocation

vars == <<pc, exit_status, dir_exists, files, i, filename, output_path,
          console, style_name, model, run, prev_listing>>

-----------------------------------------------------------------------------
(* Bounds of the model *)

\* invocations of the script in one behaviour
MaxRuns == 2

\* number of tokens concatenated into a descriptor given to the builder
MaxParts == 2

-----------------------------------------------------------------------------
(* Python str operations *)

UpperCase == <<"A","B","C","D","E","F","G","H","I","J","K","L","M","N","O","P","Q","R","S","T","U","V","W","X","Y","Z">>

LowerCase == <<"a","b","c","d","e","f","g","h","i","j","k","l","m","n","o","p","q","r","s","t","u","v","w","x","y","z">>

\* str.lower() on one character
LowerChar(c) ==
    IF \E k \in 1..26 : UpperCase[k] = c
    THEN LowerCase[CHOOSE k \in 1..26 : UpperCase[k] = c]
    ELSE c

\* s.lower()
Lower(s) == [k \in 1..Len(s) |-> LowerChar(s[k])]

\* sub in s
Contains(s, sub) ==
    \E k \in 1..(Len(s) - Len(sub) + 1) : SubSeq(s, k, k + Len(sub) - 1) = sub

\* the scan of s.replace(old, new) from position k on: an occurrence of old
\* at k is replaced and the scan resumes behind it
RECURSIVE ReplaceFrom(_, _, _, _)
ReplaceFrom(s, k, old, new) ==
    IF k > Len(s) THEN << >>
    ELSE IF k + Len(old) - 1 <= Len(s) /\ SubSeq(s, k, k + Len(old) - 1) = old
         THEN new \o ReplaceFrom(s, k + Len(old), old, new)
         ELSE <<s[k]>> \o ReplaceFrom(s, k + 1, old, new)

\* s.replace(old, new) for a non-empty old: leftmost non-overlapping occurrences
Replace(s, old, new) == ReplaceFrom(s, 1, old, new)

\* os.path.join(a, b) for a relative b
PathJoin(a, b) == a \o <<"/">> \o b

-----------------------------------------------------------------------------
(* Literals of the script *)

VanGogh == <<"V","a","n"," ","G","o","g","h">>

Picasso == <<"P","i","c","a","s","s","o">>

Cyberpunk == <<"C","y","b","e","r","p","u","n","k">>

Monet == <<"M","o","n","e","t">>

Anime == <<"A","n","i","m","e">>

styles ==
    << <<"V","a","n"," ","G","o","g","h"," ","-"," ","S","t","a","r","r","y"," ","N","i","g","h","t">>,
       <<"P","i","c","a","s","s","o"," ","-"," ","C","u","b","i","s","t">>,
       <<"C","y","b","e","r","p","u","n","k"," ","N","e","o","n">>,
       <<"M","o","n","e","t"," ","-"," ","W","a","t","e","r"," ","L","i","l","i","e","s">>,
       <<"A","n","i","m","e"," ","S","t","u","d","i","o"," ","G","h","i","b","l","i">> >>

\* the directory without its parent
models_dir_flat == <<"m","o","d","e","l","s">>

models_dir == <<"p","u","b","l","i","c","/","m","o","d","e","l","s">>

\* os.makedirs without exist_ok
exist_ok_off == FALSE

exist_ok == TRUE

input_shape == <<1, 3, 256, 256>>

output_shape == <<1, 3, 256, 256>>

\* helper.make_tensor_value_info(name, FLOAT, shape)
input_tensor == [name |-> "input", elem_type |-> "FLOAT", shape |-> input_shape]

output_tensor == [name |-> "output", elem_type |-> "FLOAT", shape |-> output_shape]

-----------------------------------------------------------------------------
(* The nodes of the graph *)

\* helper.make_node(op_type, inputs, outputs, name=..., **kwargs): kwargs is
\* the set of <<keyword, value>> pairs the call passes besides the name.
make_node(op_type, inputs, outputs, name, kwargs) ==
    [op_type |-> op_type, input |-> inputs, output |-> outputs,
     name |-> name, kwargs |-> kwargs]

\* the keyword argument attrs={'value': np.array(v)}
AttrsValue(v) == {<<"attrs.value", v>>}

\* the Div node: one input, no constant
norm_node == make_node("Div", <<"input">>, <<"normalized">>, "normalize", {})

VanGoghNodes ==
    << make_node("Mul", <<"normalized">>, <<"colored">>, "color_enhance",
                 AttrsValue(<<140, 120, 110>>)),
       make_node("Add", <<"colored">>, <<"styled">>, "add_effects",
                 AttrsValue(<<10>>)) >>

\* the Picasso branch with the contrast node appended twice
PicassoNodes_dup ==
    << make_node("Mul", <<"normalized">>, <<"contrast">>, "contrast",
                 AttrsValue(<<150>>)),
       make_node("Mul", <<"contrast">>, <<"contrast">>, "contrast",
                 AttrsValue(<<150>>)),
       make_node("Add", <<"contrast">>, <<"styled">>, "add_geometric",
                 AttrsValue(<<20>>)) >>

PicassoNodes ==
    << make_node("Mul", <<"normalized">>, <<"contrast">>, "contrast",
                 AttrsValue(<<150>>)),
       make_node("Add", <<"contrast">>, <<"styled">>, "add_geometric",
                 AttrsValue(<<20>>)) >>

CyberpunkNodes ==
    << make_node("Mul", <<"normalized">>, <<"neon">>, "neon_scale",
                 AttrsValue(<<130, 80, 150>>)),
       make_node("Add", <<"neon">>, <<"styled">>, "add_glow",
                 AttrsValue(<<20>>)) >>

MonetNodes ==
    << make_node("Mul", <<"normalized">>, <<"soft">>, "soft_scale",
                 AttrsValue(<<110>>)),
       make_node("Add", <<"soft">>, <<"styled">>, "add_impressionist",
                 AttrsValue(<<5>>)) >>

AnimeNodes ==
    << make_node("Mul", <<"normalized">>, <<"saturated">>, "saturate",
                 AttrsValue(<<130>>)),
       make_node("Add", <<"saturated">>, <<"styled">>, "add_anime",
                 AttrsValue(<<10>>)) >>

\* an else branch that appends nothing
IdentityNodes_empty == << >>

\* the else branch
IdentityNodes ==
    << make_node("Identity", <<"normalized">>, <<"styled">>, "identity", {}) >>

\* the if/elif chain with the alphabetical order of the style names
StyleNodes_alphabetical(name) ==
    IF Contains(name, Anime) THEN AnimeNodes
    ELSE IF Contains(name, Cyberpunk) THEN CyberpunkNodes
    ELSE IF Contains(name, Monet) THEN MonetNodes
    ELSE IF Contains(name, Picasso) THEN PicassoNodes
    ELSE IF Contains(name, VanGogh) THEN VanGoghNodes
    ELSE IdentityNodes

\* the if/elif/else chain of the style-specific transformations
StyleNodes(name) ==
    IF Contains(name, VanGogh) THEN VanGoghNodes
    ELSE IF Contains(name, Picasso) THEN PicassoNodes
    ELSE IF Contains(name, Cyberpunk) THEN CyberpunkNodes
    ELSE IF Contains(name, Monet) THEN MonetNodes
    ELSE IF Contains(name, Anime) THEN AnimeNodes
    ELSE IdentityNodes

\* a clamp node that reads the normalized tensor
clamp_node_unchained ==
    make_node("Clip", <<"normalized">>, <<"clamped">>, "clamp",
              {<<"min", <<0>>>>, <<"max", <<100>>>>})

\* Clip to the range 0.0 .. 1.0
clamp_node ==
    make_node("Clip", <<"styled">>, <<"clamped">>, "clamp",
              {<<"min", <<0>>>>, <<"max", <<100>>>>})

\* Mul given 255.0
denorm_node ==
    make_node("Mul", <<"clamped">>, <<"output">>, "denormalize",
              AttrsValue(<<25500>>))

\* the list nodes after the last append
Nodes(name) == <<norm_node>> \o StyleNodes(name) \o <<clamp_node, denorm_node>>

\* helper.make_graph(nodes, name, inputs, outputs)
make_graph(nodes, name, inputs, outputs) ==
    [node |-> nodes, name |-> name, input |-> inputs, output |-> outputs]

\* helper.make_model(graph), then shape_inference.infer_shapes
Model(name) ==
    [graph |-> make_graph(Nodes(name),
                          name \o <<"_","s","t","y","l","e","_","t","r","a","n","s","f","e","r">>,
                          <<input_tensor>>, <<output_tensor>>)]

-----------------------------------------------------------------------------
(* main's file name, the console and the file system *)

\* the two replace calls in the other order
Filename_spaces_first(style) ==
    Replace(Replace(Lower(style), <<" ">>, <<"_">>), <<" ","-"," ">>, <<"_">>)
        \o <<".","o","n","n","x">>

\* style.lower().replace(" - ", "_").replace(" ", "_") + ".onnx"
Filename(style) ==
    Replace(Replace(Lower(style), <<" ","-"," ">>, <<"_">>), <<" ">>, <<"_">>)
        \o <<".","o","n","n","x">>

\* the value of filename in each iteration of the for loop
filenames == [k \in 1..Len(styles) |-> Filename(styles[k])]

\* print(f"Created ONNX model: {output_path}")
Created(path) == [kind |-> "created", arg |-> path, err |-> "none"]

\* print(f"Failed to create model for {style}: {e}")
Failed(style, e) == [kind |-> "failed", arg |-> style, err |-> e]

\* print("Model generation complete!")
Complete == [kind |-> "complete", arg |-> << >>, err |-> "none"]

\* What a call of create_style_transfer_model can do: return, raise before
\* the file is opened (graph construction, shape inference, serialization or
\* open itself), or raise in f.write after open(..., 'wb') truncated the file.
Outcomes == {"ok", "raise_build", "raise_write"}

NoFiles == [p \in {} |-> << >>]

\* open(path, 'wb') followed by f.write(content): the file is created or replaced
WriteFile(fs, path, content) ==
    [p \in (DOMAIN fs) \cup {path} |-> IF p = path THEN content ELSE fs[p]]

\* the file system after a call of create_style_transfer_model
FilesAfter(fs, name, path, outcome) ==
    CASE outcome = "ok" -> WriteFile(fs, path, <<Model(name)>>)
      [] outcome = "raise_write" -> WriteFile(fs, path, << >>)
      [] outcome = "raise_build" -> fs

\* the local model when the call ends
ModelAfter(name, outcome) ==
    IF outcome = "raise_build" THEN << >> ELSE <<Model(name)>>

\* the lines the call prints
PrintedBy(path, outcome) ==
    IF outcome = "ok" THEN <<Created(path)>> ELSE << >>

\* a handler that catches I/O errors only
except_OSError(e) == e = "raise_write"

\* except Exception as e: every exception the call raises is caught
except_Exception(e) == e \in {"raise_build", "raise_write"}

\* a handler that leaves the loop
AfterHandler_break(k) == Len(styles) + 1

\* the handler prints and falls through to the next iteration
AfterHandler(k) == k + 1

-----------------------------------------------------------------------------
(* main *)

Init ==
    /\ pc = "start"
    /\ exit_status = -1
    /\ dir_exists \in BOOLEAN
    /\ files = NoFiles
    /\ i = 1
    /\ filename = << >>
    /\ output_path = << >>
    /\ console = << >>
    /\ style_name = << >>
    /\ model = << >>
    /\ run = 1
    /\ prev_listing = {}

\* os.makedirs(models_dir, exist_ok=True)
Makedirs ==
    /\ pc = "start"
    /\ IF dir_exists /\ ~exist_ok
       THEN /\ pc' = "aborted"
            /\ exit_status' = 1
            /\ UNCHANGED dir_exists
       ELSE /\ pc' = "loop"
            /\ dir_exists' = TRUE
            /\ UNCHANGED exit_status
    /\ i' = 1
    /\ UNCHANGED <<files, filename, output_path, console, style_name, model,
                   run, prev_listing>>

\* one iteration of the for loop: the file name, the call, the handler
Iterate ==
    /\ pc = "loop"
    /\ i <= Len(styles)
    /\ \E outcome \in Outcomes :
         LET style == styles[i]
             fn    == filenames[i]
             path  == PathJoin(models_dir, fn)
         IN  /\ filename' = fn
             /\ output_path' = path
             /\ style_name' = style
             /\ model' = ModelAfter(style, outcome)
             /\ files' = FilesAfter(files, style, path, outcome)
             /\ IF outcome = "ok"
                THEN /\ console' = console \o PrintedBy(path, outcome)
                     /\ i' = i + 1
                     /\ UNCHANGED <<pc, exit_status>>
                ELSE IF except_Exception(outcome)
                THEN /\ console' = Append(console, Failed(style, outcome))
                     /\ i' = AfterHandler(i)
                     /\ UNCHANGED <<pc, exit_status>>
                ELSE /\ pc' = "aborted"
                     /\ exit_status' = 1
                     /\ UNCHANGED <<console, i>>
    /\ UNCHANGED <<dir_exists, run, prev_listing>>

\* the print after the loop, and the return of main
Finish ==
    /\ pc = "loop"
    /\ i > Len(styles)
    /\ console' = Append(console, Complete)
    /\ pc' = "done"
    /\ exit_status' = 0
    /\ UNCHANGED <<dir_exists, files, i, filename, output_path, style_name,
                   model, run, prev_listing>>

\* the script is run again in the same working directory
Rerun ==
    /\ pc \in {"done", "aborted"}
    /\ run < MaxRuns
    /\ run' = run + 1
    /\ prev_listing' = DOMAIN files
    /\ pc' = "start"
    /\ exit_status' = -1
    /\ i' = 1
    /\ filename' = << >>
    /\ output_path' = << >>
    /\ console' = << >>
    /\ style_name' = << >>
    /\ model' = << >>
    /\ UNCHANGED <<dir_exists, files>>

Next == Makedirs \/ Iterate \/ Finish \/ Rerun

Spec == Init /\ [][Next]_vars

\* the steps of one invocation
Step == Makedirs \/ Iterate \/ Finish

\* A started process is scheduled until it exits; running the script again
\* is the user's choice.
FairSpec == Init /\ [][Next]_vars /\ WF_vars(Step)

-----------------------------------------------------------------------------
(* create_style_transfer_model on its own, for any descriptor *)

Tokens ==
    { VanGogh, Picasso, Cyberpunk, Monet, Anime,
      <<" ","-"," ">>, <<" ">>, <<"V","a","n">>, <<"G","o","g","h">>,
      <<"p","i","c","a","s","s","o">>, <<"U","n","k","n","o","w","n">>,
      <<"S","t","y","l","e">> }

RECURSIVE Concats(_)
Concats(n) ==
    IF n = 0 THEN { << >> }
    ELSE Concats(n - 1) \cup { d \o t : d \in Concats(n - 1), t \in Tokens }

\* the descriptors the builder is called with
Descriptors ==
    Concats(MaxParts) \cup { styles[k] : k \in 1..Len(styles) }
        \cup { <<"U","n","k","n","o","w","n"," ","S","t","y","l","e">> }

InitBuild ==
    /\ pc = "call"
    /\ exit_status = -1
    /\ dir_exists = TRUE
    /\ files = NoFiles
    /\ i = 1
    /\ filename = << >>
    /\ style_name \in Descriptors
    /\ output_path = PathJoin(models_dir, Filename(style_name))
    /\ console = << >>
    /\ model = << >>
    /\ run = 1
    /\ prev_listing = {}

\* one call of create_style_transfer_model(style_name, output_path)
Create ==
    /\ pc = "call"
    /\ \E outcome \in Outcomes :
         /\ model' = ModelAfter(style_name, outcome)
         /\ files' = FilesAfter(files, style_name, output_path, outcome)
         /\ console' = console \o PrintedBy(output_path, outcome)
         /\ pc' = IF outcome = "ok" THEN "returned" ELSE "raised"
    /\ UNCHANGED <<exit_status, dir_exists, i, filename, output_path,
                   style_name, run, prev_listing>>

NextBuild == Create

BuildSpec == InitBuild /\ [][NextBuild]_vars

-----------------------------------------------------------------------------
(* Vocabulary of the properties *)

\* the file names the specification lists for the five built-in styles
ExpectedNames ==
    << <<"v","a","n","_","g","o","g","h","_","s","t","a","r","r","y","_","n","i","g","h","t",".","o","n","n","x">>,
       <<"p","i","c","a","s","s","o","_","c","u","b","i","s","t",".","o","n","n","x">>,
       <<"c","y","b","e","r","p","u","n","k","_","n","e","o","n",".","o","n","n","x">>,
       <<"m","o","n","e","t","_","w","a","t","e","r","_","l","i","l","i","e","s",".","o","n","n","x">>,
       <<"a","n","i","m","e","_","s","t","u","d","i","o","_","g","h","i","b","l","i",".","o","n","n","x">> >>

ExpectedPath(k) ==
    <<"p","u","b","l","i","c","/","m","o","d","e","l","s","/">> \o ExpectedNames[k]

StyleIndex == 1..5

\* the console line of the k-th style, when the loop got that far
Line(k) == console[k]

AllLinesPresent == Len(console) >= 5

\* the nodes of the model the builder holds
BuiltNodes == model[1].graph.node

NodeNames(n) == [k \in 1..Len(n) |-> n[k].name]

NodeOps(n) == [k \in 1..Len(n) |-> n[k].op_type]

\* the constant operands a node was given
Operands(node) == { kw[2] : kw \in node.kwargs }

KnownSubstrings == <<VanGogh, Picasso, Cyberpunk, Monet, Anime>>

ScaleNames == <<"color_enhance", "contrast", "neon_scale", "soft_scale", "saturate">>

OffsetNames == <<"add_effects", "add_geometric", "add_glow", "add_impressionist", "add_anime">>

MatchingIndexes(name) == { k \in StyleIndex : Contains(name, KnownSubstrings[k]) }

\* the earliest known substring the descriptor contains
Earliest(name) ==
    CHOOSE k \in MatchingIndexes(name) : \A j \in MatchingIndexes(name) : k <= j

CountWhere(n, P(_)) == Cardinality({ k \in 1..Len(n) : P(n[k]) })

IsStyleNode(node) ==
    \E k \in StyleIndex : node.name \in {ScaleNames[k], OffsetNames[k], "identity"}

-----------------------------------------------------------------------------
(* C1 *)

\* C1 as stated: after a complete run of main, each of the five built-in
\* styles has a model file at its slugged path under public/models.
C1_AllFiveFilesExist ==
    pc = "done" =>
        /\ \A k \in StyleIndex : ExpectedPath(k) \in DOMAIN files
        /\ Cardinality(DOMAIN files) = 5

\* C1 (amended): after a complete run of main, every style whose generation
\* did not raise has its complete model file at its slugged path under
\* public/models and no file lies anywhere else, so a run without failures
\* leaves exactly the 5 files; a style whose generation raised before its
\* file was opened has no file after a run that started without files.
C1_FilesOfCreatedStyles ==
    pc = "done" =>
        /\ AllLinesPresent
        /\ DOMAIN files \subseteq { ExpectedPath(k) : k \in StyleIndex }
        /\ \A k \in StyleIndex :
             /\ Line(k).kind = "created" =>
                  /\ Line(k).arg = ExpectedPath(k)
                  /\ ExpectedPath(k) \in DOMAIN files
                  /\ files[ExpectedPath(k)] = <<Model(styles[k])>>
             /\ (run = 1 /\ Line(k).err = "raise_build") =>
                  ExpectedPath(k) \notin DOMAIN files
        /\ (\A k \in StyleIndex : Line(k).kind = "created") =>
             Cardinality(DOMAIN files) = 5

C1_Witness ==
    /\ pc = "done"
    /\ run = 1
    /\ AllLinesPresent
    /\ \A k \in StyleIndex : Line(k).kind = "created"
    /\ Cardinality(DOMAIN files) = 5

-----------------------------------------------------------------------------
(* C2 *)

\* C2: the file name computed for each built-in style is the listed one
\* (van_gogh_starry_night.onnx, picasso_cubist.onnx, cyberpunk_neon.onnx,
\* monet_water_lilies.onnx, anime_studio_ghibli.onnx), it has no upper-case
\* letter and no space and ends in .onnx, and no two styles write to the same
\* path: a first run leaves as many files as styles that opened their file.
C2_SlugFileNames ==
    /\ (pc \in {"loop", "done"} /\ i > 1 /\ i <= 6) =>
         /\ filename = ExpectedNames[i - 1]
         /\ output_path = ExpectedPath(i - 1)
         /\ \A c \in 1..Len(filename) :
              filename[c] # " " /\ \A u \in 1..26 : filename[c] # UpperCase[u]
         /\ SubSeq(filename, Len(filename) - 4, Len(filename))
              = <<".","o","n","n","x">>
         /\ \A k \in 1..(i - 2) : ExpectedPath(k) # output_path
    /\ (pc = "done" /\ run = 1 /\ AllLinesPresent) =>
         Cardinality(DOMAIN files)
           = Cardinality({ k \in StyleIndex : Line(k).err # "raise_build" })

C2_Witness ==
    /\ pc = "done"
    /\ filename = ExpectedNames[5]
    /\ { ExpectedPath(k) : k \in StyleIndex } = DOMAIN files
    /\ \E k \in StyleIndex : files[ExpectedPath(k)] = << >>

-----------------------------------------------------------------------------
(* C3 *)

\* C3: for every descriptor, matching a known substring or not, the nodes
\* are one linear chain: the first node reads the graph input 'input', every
\* later node reads exactly the output of the node before it, and the last
\* node writes the graph output 'output'.
C3_NodeChain ==
    model # << >> =>
        LET n == BuiltNodes
            g == model[1].graph
        IN  /\ Len(n) >= 1
            /\ g.input[1].name = "input"
            /\ g.output[1].name = "output"
            /\ n[1].input = <<g.input[1].name>>
            /\ \A k \in 2..Len(n) : n[k].input = n[k - 1].output
            /\ n[Len(n)].output = <<g.output[1].name>>
            /\ \A j, k \in 1..Len(n) : j # k => n[j].output # n[k].output

C3_Witness ==
    /\ pc = "returned"
    /\ model # << >>
    /\ MatchingIndexes(style_name) = {}
    /\ Len(BuiltNodes) = 4
    /\ BuiltNodes[3].input = BuiltNodes[2].output

-----------------------------------------------------------------------------
(* C4 *)

\* C4: for a descriptor that contains none of the five known substrings the
\* graph has exactly the 4 nodes normalize, identity, clamp, denormalize in
\* this order: one Identity node in place of the Mul/Add pair, and no scale
\* or offset node.
C4_IdentityGraph ==
    (model # << >> /\ MatchingIndexes(style_name) = {}) =>
        LET n == BuiltNodes
        IN  /\ NodeNames(n) = <<"normalize", "identity", "clamp", "denormalize">>
            /\ NodeOps(n) = <<"Div", "Identity", "Clip", "Mul">>
            /\ n[2].kwargs = {}
            /\ \A k \in 1..Len(n), s \in StyleIndex :
                 n[k].name # ScaleNames[s] /\ n[k].name # OffsetNames[s]

C4_Witness ==
    /\ pc = "returned"
    /\ style_name = <<"U","n","k","n","o","w","n"," ","S","t","y","l","e">>
    /\ model # << >>
    /\ BuiltNodes[2].op_type = "Identity"

-----------------------------------------------------------------------------
(* C5 *)

\* the five node names of C5 occur in the given order among the nodes
PicassoNamesInOrder(n) ==
    \E a, b, c, d, e \in 1..Len(n) :
        /\ a < b /\ b < c /\ c < d /\ d < e
        /\ <<n[a].name, n[b].name, n[c].name, n[d].name, n[e].name>>
             = <<"normalize", "contrast", "add_geometric", "clamp", "denormalize">>

\* C5 as stated: the graph of "Picasso - Cubist" has exactly 6 nodes, in the
\* order normalize, contrast, add_geometric, clamp, denormalize.
C5_PicassoSixNodes ==
    (model # << >> /\ style_name = styles[2]) =>
        /\ Len(BuiltNodes) = 6
        /\ PicassoNamesInOrder(BuiltNodes)

\* C5 (amended): the graph of "Picasso - Cubist" has exactly 5 nodes, in the
\* order normalize(Div), contrast(Mul, given 1.5), add_geometric(Add, given
\* 0.2), clamp(Clip 0..1), denormalize(Mul, given 255), and the Picasso
\* branch is the only style branch taken.
C5_PicassoFiveNodes ==
    (model # << >> /\ style_name = styles[2]) =>
        LET n == BuiltNodes
        IN  /\ Len(n) = 5
            /\ NodeNames(n) = <<"normalize", "contrast", "add_geometric",
                                "clamp", "denormalize">>
            /\ NodeOps(n) = <<"Div", "Mul", "Add", "Clip", "Mul">>
            /\ Operands(n[2]) = { <<150>> }
            /\ Operands(n[3]) = { <<20>> }
            /\ n[4].kwargs = { <<"min", <<0>>>>, <<"max", <<100>>>> }
            /\ Operands(n[5]) = { <<25500>> }
            /\ { n[k].name : k \in { j \in 1..Len(n) : IsStyleNode(n[j]) } }
                 = { "contrast", "add_geometric" }

C5_Witness ==
    /\ pc = "returned"
    /\ style_name = styles[2]
    /\ model # << >>
    /\ Len(BuiltNodes) = 5
    /\ output_path = ExpectedPath(2)
    /\ files[output_path] = model

-----------------------------------------------------------------------------
(* C6 *)

\* the console line of the k-th style reports that style and no other
ReportsStyle(k) ==
    \/ Line(k) = [kind |-> "created", arg |-> ExpectedPath(k), err |-> "none"]
    \/ /\ Line(k).kind = "failed"
       /\ Line(k).arg = styles[k]
       /\ Line(k).err \in {"raise_build", "raise_write"}

\* C6: main attempts every style of the list exactly once, in list order and
\* one at a time: while the loop runs the k-th line printed reports the k-th
\* style, as created or as failed, and the style taken next is the one after
\* the last reported; a failure is reported for its style only and whichever
\* styles fail, at the end all five have been reported.
C6_EveryStyleOnceInOrder ==
    /\ pc = "loop" =>
         /\ i \in 1..6
         /\ Len(console) = i - 1
         /\ \A k \in 1..(i - 1) : ReportsStyle(k)
         /\ i > 1 => style_name = styles[i - 1]
    /\ pc = "done" =>
         /\ Len(console) = 6
         /\ \A k \in StyleIndex : ReportsStyle(k)
         /\ console[6] = Complete
    /\ pc # "aborted"

C6_Witness ==
    /\ pc = "done"
    /\ Len(console) = 6
    /\ Line(1).kind = "failed"
    /\ Line(2).kind = "created"
    /\ Line(3).kind = "failed"
    /\ Line(4).kind = "created"
    /\ Line(5).kind = "failed"

-----------------------------------------------------------------------------
(* C7 *)

\* the run has ended with the completion message as its last line and
\* success as its exit status
CompletedWithSuccess ==
    /\ pc = "done"
    /\ exit_status = 0
    /\ Len(console) = 6
    /\ console[Len(console)] = Complete

\* C7: every run of main terminates: whichever styles fail, a started run
\* eventually prints "Model generation complete!" after the last style and
\* exits with status 0.
C7_RunCompletes == (pc = "start") ~> CompletedWithSuccess

C7_Witness ==
    /\ CompletedWithSuccess
    /\ \A k \in StyleIndex : Line(k).kind = "failed"

-----------------------------------------------------------------------------
(* C8 *)

\* C8 as stated: a second run on the directory left by a first run ends
\* without error and leaves the same set of files as the first run.
C8_SameFilesAfterSecondRun ==
    (run >= 2 /\ exit_status # -1) =>
        /\ exit_status = 0
        /\ DOMAIN files = prev_listing

\* C8 (amended): a second run on the directory left by a first run ends
\* without error (the existing directory and files are accepted, and the
\* file of every style that is generated is replaced by its complete model),
\* and the set of files after the second run contains the set after the
\* first run; the two are equal when the first run left all five files.
C8_FilesKeptBySecondRun ==
    (run >= 2 /\ exit_status # -1) =>
        /\ exit_status = 0
        /\ pc = "done"
        /\ prev_listing \subseteq DOMAIN files
        /\ Cardinality(prev_listing) = 5 => DOMAIN files = prev_listing
        /\ \A k \in StyleIndex :
             Line(k).kind = "created" =>
                 files[ExpectedPath(k)] = <<Model(styles[k])>>

C8_Witness ==
    /\ run = 2
    /\ pc = "done"
    /\ exit_status = 0
    /\ Cardinality(prev_listing) = 5
    /\ DOMAIN files = prev_listing
    /\ \A k \in StyleIndex : Line(k).kind = "created"

-----------------------------------------------------------------------------
(* C9 *)

\* the scale and offset nodes appended by the k-th branch
TakesBranch(n, k) ==
    /\ Len(n) = 5
    /\ n[2].op_type = "Mul" /\ n[2].name = ScaleNames[k]
    /\ n[3].op_type = "Add" /\ n[3].name = OffsetNames[k]
    /\ n[3].input = n[2].output
    /\ n[3].output = <<"styled">>
    /\ CountWhere(n, IsStyleNode) = 2
    /\ CountWhere(n, LAMBDA x : x.op_type = "Add") = 1
    /\ CountWhere(n, LAMBDA x : x.op_type = "Mul" /\ x.name # "denormalize") = 1

\* C9 as stated: for every descriptor exactly one branch is taken, the branch
\* of the earliest known substring the descriptor contains, and it appends
\* exactly one scale (Mul) node followed by exactly one offset (Add) node
\* whose output is 'styled'.
C9_EveryDescriptorScaleOffset ==
    model # << >> =>
        \E k \in MatchingIndexes(style_name) :
            /\ \A j \in MatchingIndexes(style_name) : k <= j
            /\ TakesBranch(BuiltNodes, k)

\* C9 (amended): for every descriptor that contains at least one of "Van
\* Gogh", "Picasso", "Cyberpunk", "Monet", "Anime", exactly one branch is
\* taken, the branch of the earliest of these (in this order) that the
\* descriptor contains, also when it contains several, and that branch
\* appends exactly one scale (Mul) node followed by exactly one offset (Add)
\* node whose output is 'styled'; a descriptor that contains none of them
\* takes the else branch, which appends one Identity node whose output is
\* 'styled'.
C9_FirstMatchWins ==
    model # << >> =>
        IF MatchingIndexes(style_name) # {}
        THEN TakesBranch(BuiltNodes, Earliest(style_name))
        ELSE /\ Len(BuiltNodes) = 4
             /\ BuiltNodes[2].op_type = "Identity"
             /\ BuiltNodes[2].output = <<"styled">>
             /\ CountWhere(BuiltNodes, IsStyleNode) = 1

C9_Witness ==
    /\ pc = "returned"
    /\ model # << >>
    /\ Contains(style_name, Anime)
    /\ Contains(style_name, Picasso)
    /\ ~ Contains(SubSeq(style_name, 1, 6), Picasso)
    /\ BuiltNodes[2].name = "contrast"

-----------------------------------------------------------------------------
(* C10 *)

\* C10: in every generated graph the normalize (Div) node is given the
\* divisor 255, the constant the denormalize (Mul) node is given as factor.
C10_NormalizeDividesBy255 ==
    model # << >> =>
        LET n == BuiltNodes
        IN  /\ n[1].op_type = "Div" /\ n[1].name = "normalize"
            /\ n[Len(n)].op_type = "Mul" /\ n[Len(n)].name = "denormalize"
            /\ Operands(n[Len(n)]) = { <<25500>> }
            /\ Operands(n[1]) = Operands(n[Len(n)])

=============================================================================
